---- MODULE Spec2Model ----
(***************************************************************************)
(* Model of src/src/resource_allocation_model.py: the healthcare resource  *)
(* allocation environment (hospitals = providers, patients = consumers,    *)
(* one coordinator).                                                       *)
(*                                                                         *)
(* Numbers.  Resource levels are Python numbers that become decimal        *)
(* fractions after the first replenishment (x 1.1).  They are modelled as  *)
(* exact decimals: a level v is the integer v * Scale.  IEEE rounding of   *)
(* the float operations is not modelled.  Scores and ranks are exact       *)
(* fractions <<numerator, denominator>>; they are compared through         *)
(* arbitrary-precision naturals (little-endian limbs of base Base) because *)
(* the cross products exceed the checker's integer width.                  *)
(***************************************************************************)
EXTENDS Integers, Sequences, FiniteSets, TLC

VARIABLES
    num_hospitals,       \* model.num_hospitals, as passed to the constructor
    num_patients,        \* model.num_patients, as passed to the constructor
    initial_resources,   \* HospitalAgent.initial_resources, per hospital (scaled)
    current_resources,   \* HospitalAgent.current_resources, per hospital (scaled)
    severity,            \* PatientAgent.severity, per patient
    medical_needs,       \* PatientAgent.medical_needs, per patient (whole units)
    unmet_needs,         \* PatientAgent.unmet_needs, per patient (whole units)
    message_log,         \* resource_coordinator.message_manager.message_log
    global_message_log,  \* model.global_message_manager.message_log
    total_unmet_needs,   \* model.total_unmet_needs
    resource_allocation_efficiency, \* model metric, a fraction <<num, den>>
    pc,                  \* position of the running call
    caller,              \* who invoked negotiate_resource_allocation
    patient,             \* index of the patient being served
    hospital,            \* loop index over model.hospitals
    required_resources,  \* argument of negotiate_resource_allocation
    bids,                \* local list `bids` / `hospital_bids`
    best_hospital,       \* local `best_hospital` (0 = none)
    allocation_success,  \* local `allocation_success` / return value
    high,                \* local `high_capacity_hospitals`
    low,                 \* local `low_capacity_hospitals`
    source,              \* outer loop index into high
    target,              \* inner loop index into low
    steps,               \* number of completed step() calls
    calls,               \* number of direct negotiate calls made
    step_trace,          \* history: the operations of the current step() so far
    entry_resources,     \* history: current_resources when the negotiation was entered
    entry_unmet,         \* history: unmet_needs when the negotiation was entered
    entry_log_len,       \* history: length of message_log when the negotiation was entered
    pass_resources       \* history: current_resources when the rebalance pass was entered

vars == <<num_hospitals, num_patients, initial_resources, current_resources, severity, medical_needs,
          unmet_needs, message_log, global_message_log, total_unmet_needs,
          resource_allocation_efficiency, pc, caller, patient, hospital,
          required_resources, bids, best_hospital, allocation_success,
          high, low, source, target, steps, calls, step_trace,
          entry_resources, entry_unmet, entry_log_len, pass_resources>>

----------------------------------------------------------------------------
(* Bounds *)

MaxSteps == 2
MaxCalls == 1

(* One resource unit is Scale model units (five decimal places). *)
Scale == 10 * 10 * 10 * 10 * 10

(* Initial capacities of the hospitals, per configuration (whole units). *)
CapacityConfigs == { <<>>, <<0>>, <<240>>, <<100, 100>>, <<200, 50>>, <<400, 50>> }

(* Severities of the patients, per configuration. *)
SeverityConfigs == { <<>>, <<"high">>, <<"medium">>, <<"low">>,
                     <<"high", "high">> }

(* The capacities (model units) explored with two patients. *)
TwoPatientCapacities ==
    { [h \in 1..2 |-> caps[h] * Scale] : caps \in { <<100, 100>>, <<400, 50>> } }

(* The demands explored out of each severity range. *)
DemandSamples == {5, 20, 40, 150, 200}

(* The amounts a driver passes to negotiate_resource_allocation. *)
DriverAmounts == {40, 150}

----------------------------------------------------------------------------
(* Arbitrary-precision naturals: sequences of limbs, least significant
   first.  <<>> is zero; high-order zero limbs are allowed. *)

Base == 10 * 10 * 10 * 10

RECURSIVE BigOf(_)
BigOf(n) == IF n = 0 THEN <<>> ELSE <<n % Base>> \o BigOf(n \div Base)

RECURSIVE BigAddC(_, _, _)
BigAddC(a, b, c) ==
    IF a = <<>> /\ b = <<>>
    THEN IF c = 0 THEN <<>> ELSE <<c>>
    ELSE LET x == IF a = <<>> THEN 0 ELSE Head(a)
             y == IF b = <<>> THEN 0 ELSE Head(b)
             s == x + y + c
         IN  <<s % Base>> \o BigAddC(IF a = <<>> THEN <<>> ELSE Tail(a),
                                     IF b = <<>> THEN <<>> ELSE Tail(b),
                                     s \div Base)

BigAdd(a, b) == BigAddC(a, b, 0)

RECURSIVE BigMulLimb(_, _, _)
BigMulLimb(a, k, c) ==
    IF a = <<>>
    THEN IF c = 0 THEN <<>> ELSE <<c>>
    ELSE LET s == Head(a) * k + c
         IN  <<s % Base>> \o BigMulLimb(Tail(a), k, s \div Base)

RECURSIVE BigMul(_, _)
BigMul(a, b) ==
    IF b = <<>> THEN <<>>
    ELSE BigAdd(BigMulLimb(a, Head(b), 0), <<0>> \o BigMul(a, Tail(b)))

Limb(a, i) == IF i <= Len(a) THEN a[i] ELSE 0

RECURSIVE BigCmpFrom(_, _, _)
BigCmpFrom(a, b, i) ==
    IF i = 0 THEN 0
    ELSE IF Limb(a, i) < Limb(b, i) THEN -1
    ELSE IF Limb(a, i) > Limb(b, i) THEN 1
    ELSE BigCmpFrom(a, b, i - 1)

(* -1, 0, 1 as a < b, a = b, a > b *)
BigCmp(a, b) == BigCmpFrom(a, b, IF Len(a) > Len(b) THEN Len(a) ELSE Len(b))

(* Fractions with arbitrary-precision parts. *)
Frac(n, d) == <<BigOf(n), BigOf(d)>>
FracAdd(f, g) == <<BigAdd(BigMul(f[1], g[2]), BigMul(g[1], f[2])), BigMul(f[2], g[2])>>
FracMul(f, g) == <<BigMul(f[1], g[1]), BigMul(f[2], g[2])>>
FracCmp(f, g) == BigCmp(BigMul(f[1], g[2]), BigMul(g[1], f[2]))

Min(a, b) == IF a <= b THEN a ELSE b

----------------------------------------------------------------------------
(* Identities: unique_id from model.next_id(); the coordinator is created
   first, then the hospitals, then the patients.  BROADCAST is the string
   sentinel used as recipient of RESOURCE_UNAVAILABLE. *)

NumHospitals == Len(initial_resources)
NumPatients == Len(severity)
Hospitals == 1..NumHospitals
Patients == 1..NumPatients

BROADCAST == 0
CoordinatorId == 1
HospitalId(h) == 1 + h
PatientId(p) == 1 + NumHospitals + p

(* class Message (the timestamp is not modelled); content is a tuple of
   integers *)
Message(sender, recipient, content, message_type) ==
    [sender |-> sender, recipient |-> recipient, content |-> content,
     message_type |-> message_type]

(* mutant: a message equal to one already logged is dropped *)
send_message_dedup(log, message) ==
    IF \E i \in 1..Len(log) : log[i] = message THEN log ELSE Append(log, message)

(* MessageManager.send_message *)
send_message(log, message) == Append(log, message)

(* MessageManager.get_messages_for_agent *)
get_messages_for_agent(log, agent) ==
    SelectSeq(log, LAMBDA msg : msg.recipient = agent)

----------------------------------------------------------------------------
(* HospitalAgent *)

None == <<>>

(* matches_specialization: placeholder, always True *)
matches_specialization(h, p) == TRUE

(* calculate_admission_score on a balance cur and a demand req (whole units):
     0.4 * specialization_match + 0.6 * (1 - req / cur)
   with specialization_match = 1.0 when compatible, 0.3 otherwise.  The
   result is the fraction <<num, den>>, reduced by the common factor 20:
     compatible:   (5 cur - 3 req) / (5 cur)
     incompatible: (18 cur - 15 req) / (25 cur)  *)
AdmissionScore(cur, req, match) ==
    IF match
    THEN <<5 * cur - 3 * req * Scale, 5 * cur>>
    ELSE <<18 * cur - 15 * req * Scale, 25 * cur>>

calculate_admission_score(h, p, req) ==
    AdmissionScore(current_resources[h], req, matches_specialization(h, p))

(* mutant: a score of exactly 0.5 is admitted *)
AboveThreshold_inclusive(score) == 2 * score[1] >= score[2]

(* admission_threshold = 0.5 : score > 0.5 *)
AboveThreshold(score) == 2 * score[1] > score[2]

(* evaluate_patient_admission: the returned bid, or None *)
AdmissionBid(cur, req, match) ==
    IF cur < req * Scale THEN None
    ELSE IF AboveThreshold(AdmissionScore(cur, req, match))
         THEN AdmissionScore(cur, req, match)
         ELSE None

evaluate_patient_admission(h, p, req) ==
    AdmissionBid(current_resources[h], req, matches_specialization(h, p))

(* mutant: the debit is not guarded *)
CanAllocate_unguarded(cur, needs) == TRUE

(* mutant: the guard only asks for a positive balance *)
CanAllocate_positive(cur, needs) == cur > 0

(* mutant: the comparison of the guard is reversed *)
CanAllocate_reversed(cur, needs) == cur <= needs * Scale

(* HospitalAgent.allocate_resources: the guard of the debit *)
CanAllocate(cur, needs) == cur >= needs * Scale

(* mutant: max_growth_factor is 1.0, the balance is cut back to the capacity *)
Replenished_to_capacity(cur, init) == Min(cur + cur \div 10, init)

(* process_resources: min(current * 1.1, initial * 1.5) *)
Replenished(cur, init) == Min(cur + cur \div 10, init + init \div 2)

----------------------------------------------------------------------------
(* ResourceCoordinatorAgent *)

(* severity_map, default 0.5 *)
severity_score(p) ==
    IF severity[p] = "low" THEN Frac(2, 10)
    ELSE IF severity[p] = "medium" THEN Frac(5, 10)
    ELSE IF severity[p] = "high" THEN Frac(10, 10)
    ELSE Frac(5, 10)

(* capacity_score: min(current / initial, 1.0) *)
capacity_score(h) ==
    IF current_resources[h] <= initial_resources[h]
    THEN Frac(current_resources[h], initial_resources[h])
    ELSE Frac(1, 1)

(* evaluate_bid: 0.4 * severity + 0.3 * capacity + 0.3 * bid_value *)
evaluate_bid(h, bid_value, p) ==
    FracAdd(FracMul(Frac(4, 10), severity_score(p)),
            FracAdd(FracMul(Frac(3, 10), capacity_score(h)),
                    FracMul(Frac(3, 10), Frac(bid_value[1], bid_value[2]))))

(* key of one (hospital, bid) pair in the sort of allocate_resources *)
BidKey(b, p) == evaluate_bid(b[1], b[2], p)

(* mutant: a pair is put in front of the pairs of equal key *)
RECURSIVE InsertBid_unstable(_, _, _)
InsertBid_unstable(s, x, p) ==
    IF s = <<>> THEN <<x>>
    ELSE IF FracCmp(BidKey(Head(s), p), BidKey(x, p)) > 0
         THEN <<Head(s)>> \o InsertBid_unstable(Tail(s), x, p)
         ELSE <<x>> \o s

(* mutant: ascending order, as without reverse=True *)
RECURSIVE InsertBid_ascending(_, _, _)
InsertBid_ascending(s, x, p) ==
    IF s = <<>> THEN <<x>>
    ELSE IF FracCmp(BidKey(Head(s), p), BidKey(x, p)) <= 0
         THEN <<Head(s)>> \o InsertBid_ascending(Tail(s), x, p)
         ELSE <<x>> \o s

(* sorted(hospital_bids, key=..., reverse=True): Python's sort is stable,
   also with reverse=True, so pairs with equal keys keep their order.
   InsertBid puts x behind every pair whose key is >= the key of x. *)
RECURSIVE InsertBid(_, _, _)
InsertBid(s, x, p) ==
    IF s = <<>> THEN <<x>>
    ELSE IF FracCmp(BidKey(Head(s), p), BidKey(x, p)) >= 0
         THEN <<Head(s)>> \o InsertBid(Tail(s), x, p)
         ELSE <<x>> \o s

RECURSIVE SortFrom(_, _, _)
SortFrom(done, rest, p) ==
    IF rest = <<>> THEN done
    ELSE SortFrom(InsertBid(done, Head(rest), p), Tail(rest), p)

sorted_bids(hospital_bids, p) == SortFrom(<<>>, hospital_bids, p)

(* model.hospitals, in registry order *)
Registry == [h \in Hospitals |-> h]

(* h.current_resources > h.initial_resources * 1.2 *)
IsHighCapacity(h) ==
    current_resources[h] > initial_resources[h] + initial_resources[h] \div 5

(* h.current_resources < h.initial_resources * 0.8 *)
IsLowCapacity(h) ==
    current_resources[h] < initial_resources[h] - initial_resources[h] \div 5

(* stable insertion by current_resources; descending when reverse *)
RECURSIVE InsertHospital(_, _, _)
InsertHospital(s, x, reverse) ==
    IF s = <<>> THEN <<x>>
    ELSE IF (IF reverse
             THEN current_resources[Head(s)] >= current_resources[x]
             ELSE current_resources[Head(s)] <= current_resources[x])
         THEN <<Head(s)>> \o InsertHospital(Tail(s), x, reverse)
         ELSE <<x>> \o s

RECURSIVE SortHospitalsFrom(_, _, _)
SortHospitalsFrom(done, rest, reverse) ==
    IF rest = <<>> THEN done
    ELSE SortHospitalsFrom(InsertHospital(done, Head(rest), reverse),
                           Tail(rest), reverse)

high_capacity_hospitals ==
    SortHospitalsFrom(<<>>, SelectSeq(Registry, IsHighCapacity), TRUE)

low_capacity_hospitals ==
    SortHospitalsFrom(<<>>, SelectSeq(Registry, IsLowCapacity), FALSE)

(* mutant: the amount is computed from the balances at the start of the pass *)
transfer_amount_snapshot(src, tgt) ==
    Min(pass_resources[src] \div 10,
        initial_resources[tgt] \div 5 - pass_resources[tgt])

(* mutant: the amount is bounded by the source only *)
transfer_amount_source_only(src, tgt) == current_resources[src] \div 10

(* transfer_amount = min(source.current * 0.1,
                         target.initial * 0.2 - target.current) *)
transfer_amount(src, tgt) ==
    Min(current_resources[src] \div 10,
        initial_resources[tgt] \div 5 - current_resources[tgt])

(* mutant: the target is credited but the source is not debited *)
apply_transfer_no_debit(resources, src, tgt, amount) ==
    [resources EXCEPT ![tgt] = @ + amount]

(* source.current_resources -= transfer_amount
   target.current_resources += transfer_amount *)
apply_transfer(resources, src, tgt, amount) ==
    [resources EXCEPT ![src] = @ - amount, ![tgt] = @ + amount]

----------------------------------------------------------------------------
(* PatientAgent *)

(* random.randint(min_need, max_need) is inclusive at both ends *)
randint(a, b) == a..b

(* mutant: no key matches, every severity gets the default range *)
severity_resource_ranges_default(sev) == <<10, 50>>

(* severity_resource_ranges, default (10, 50) *)
severity_resource_ranges(sev) ==
    IF sev = "low" THEN <<5, 20>>
    ELSE IF sev = "medium" THEN <<20, 100>>
    ELSE IF sev = "high" THEN <<100, 200>>
    ELSE <<10, 50>>

(* the values generate_medical_needs can draw for a patient *)
PossibleNeeds(p) ==
    randint(severity_resource_ranges(severity[p])[1],
            severity_resource_ranges(severity[p])[2])

----------------------------------------------------------------------------
(* Sums over the registries *)

RECURSIVE SumSeq(_)
SumSeq(s) == IF s = <<>> THEN 0 ELSE Head(s) + SumSeq(Tail(s))

----------------------------------------------------------------------------
(* Construction: ResourceAllocationEnvironment.__init__ with the hospitals
   and patients of one configuration *)

Init ==
    /\ \E caps \in CapacityConfigs :
          /\ num_hospitals = Len(caps)
          /\ initial_resources = [h \in 1..Len(caps) |-> caps[h] * Scale]
          /\ current_resources = [h \in 1..Len(caps) |-> caps[h] * Scale]
    /\ severity \in { s \in SeverityConfigs :
                        Len(s) < 2 \/ initial_resources \in TwoPatientCapacities }
    /\ num_patients = Len(severity)
    /\ medical_needs = [p \in 1..Len(severity) |-> 0]
    /\ unmet_needs = [p \in 1..Len(severity) |-> 0]
    /\ message_log = <<>>
    /\ global_message_log = <<>>
    /\ total_unmet_needs = 0
    /\ resource_allocation_efficiency = <<0, 1>>
    /\ pc = "idle"
    /\ caller = "none"
    /\ patient = 0
    /\ hospital = 0
    /\ required_resources = 0
    /\ bids = <<>>
    /\ best_hospital = 0
    /\ allocation_success = "None"
    /\ high = <<>>
    /\ low = <<>>
    /\ source = 0
    /\ target = 0
    /\ steps = 0
    /\ calls = 0
    /\ step_trace = <<>>
    /\ entry_resources = current_resources
    /\ entry_unmet = unmet_needs
    /\ entry_log_len = 0
    /\ pass_resources = current_resources

----------------------------------------------------------------------------
(* ResourceAllocationEnvironment.step, in program order *)

Event(op, who) == [op |-> op, who |-> who]

(* mutant: the replenishment loop is skipped *)
AfterPatients_no_replenish == "rebalance"

(* where step() continues after the loop over the patients *)
AfterPatients == IF NumHospitals = 0 THEN "rebalance" ELSE "replenish"

(* where negotiate_resource_allocation continues after its loop header *)
AfterNegotiateEntry == IF NumHospitals = 0 THEN "allocate" ELSE "quote"

(* step() is entered *)
StepBegin ==
    /\ pc = "idle"
    /\ steps < MaxSteps
    /\ step_trace' = <<>>
    /\ patient' = IF NumPatients = 0 THEN 0 ELSE 1
    /\ hospital' = 1
    /\ pc' = IF NumPatients = 0 THEN AfterPatients ELSE "generate"
    /\ UNCHANGED <<num_hospitals, num_patients, initial_resources, current_resources, severity,
                   medical_needs, unmet_needs, message_log, global_message_log,
                   total_unmet_needs, resource_allocation_efficiency, caller,
                   required_resources, bids, best_hospital,
                   allocation_success, high, low, source, target, steps, calls,
                   entry_resources, entry_unmet, entry_log_len, pass_resources>>

(* PatientAgent.generate_medical_needs up to the call of
   negotiate_resource_allocation(self, self.medical_needs) *)
GenerateMedicalNeeds ==
    /\ pc = "generate"
    /\ \E need \in PossibleNeeds(patient) \cap DemandSamples :
          /\ medical_needs' = [medical_needs EXCEPT ![patient] = need]
          /\ message_log' = send_message(message_log,
                 Message(PatientId(patient), CoordinatorId, <<need>>, "MEDICAL_NEEDS"))
          /\ required_resources' = need
    /\ caller' = "generate_medical_needs"
    /\ entry_resources' = current_resources
    /\ entry_unmet' = unmet_needs
    /\ entry_log_len' = Len(message_log)
    /\ bids' = <<>>
    /\ hospital' = 1
    /\ pc' = AfterNegotiateEntry
    /\ UNCHANGED <<num_hospitals, num_patients, initial_resources, current_resources, severity, unmet_needs,
                   global_message_log, total_unmet_needs,
                   resource_allocation_efficiency, patient, best_hospital,
                   allocation_success, high, low, source, target, steps, calls,
                   step_trace,
                   pass_resources>>

(* negotiate_resource_allocation(patient, required_resources) called by a
   driver between two steps, with an amount of its choice *)
NegotiateCall ==
    /\ pc = "idle"
    /\ calls < MaxCalls
    /\ \E p \in Patients, amount \in DriverAmounts :
          /\ patient' = p
          /\ required_resources' = amount
    /\ caller' = "driver"
    /\ entry_resources' = current_resources
    /\ entry_unmet' = unmet_needs
    /\ entry_log_len' = Len(message_log)
    /\ bids' = <<>>
    /\ hospital' = 1
    /\ calls' = calls + 1
    /\ pc' = AfterNegotiateEntry
    /\ UNCHANGED <<num_hospitals, num_patients, initial_resources, current_resources, severity,
                   medical_needs, unmet_needs, message_log, global_message_log,
                   total_unmet_needs, resource_allocation_efficiency,
                   best_hospital, allocation_success, high, low, source,
                   target, steps, step_trace,
                   pass_resources>>

(* mutant: the hospital sends its ADMISSION_BID through the environment's
   global_message_manager *)
EvaluatePatientAdmission_global_log ==
    /\ pc = "quote"
    /\ global_message_log' = send_message(global_message_log,
           Message(HospitalId(hospital), CoordinatorId,
                   <<PatientId(patient), required_resources>>, "ADMISSION_BID"))
    /\ LET bid == evaluate_patient_admission(hospital, patient, required_resources)
       IN  bids' = IF bid # None THEN Append(bids, <<hospital, bid>>) ELSE bids
    /\ hospital' = hospital + 1
    /\ pc' = IF hospital = NumHospitals THEN "allocate" ELSE "quote"
    /\ UNCHANGED <<num_hospitals, num_patients, initial_resources, current_resources, severity,
                   medical_needs, unmet_needs, message_log,
                   total_unmet_needs, resource_allocation_efficiency, caller,
                   patient, required_resources, best_hospital,
                   allocation_success, high, low, source, target, steps, calls,
                   step_trace,
                   entry_resources, entry_unmet, entry_log_len, pass_resources>>

(* mutant: ADMISSION_BID is logged only when the hospital returns a bid *)
EvaluatePatientAdmission_bid_only ==
    /\ pc = "quote"
    /\ LET bid == evaluate_patient_admission(hospital, patient, required_resources)
       IN  /\ bids' = IF bid # None THEN Append(bids, <<hospital, bid>>) ELSE bids
           /\ message_log' =
                  IF bid # None
                  THEN send_message(message_log,
                           Message(HospitalId(hospital), CoordinatorId,
                                   <<PatientId(patient), required_resources>>,
                                   "ADMISSION_BID"))
                  ELSE message_log
    /\ hospital' = hospital + 1
    /\ pc' = IF hospital = NumHospitals THEN "allocate" ELSE "quote"
    /\ UNCHANGED <<num_hospitals, num_patients, initial_resources, current_resources, severity,
                   medical_needs, unmet_needs, global_message_log,
                   total_unmet_needs, resource_allocation_efficiency, caller,
                   patient, required_resources, best_hospital,
                   allocation_success, high, low, source, target, steps, calls,
                   step_trace,
                   entry_resources, entry_unmet, entry_log_len, pass_resources>>

(* one iteration of the loop of negotiate_resource_allocation:
   hospital.evaluate_patient_admission(patient, required_resources) *)
EvaluatePatientAdmission ==
    /\ pc = "quote"
    /\ message_log' = send_message(message_log,
           Message(HospitalId(hospital), CoordinatorId,
                   <<PatientId(patient), required_resources>>, "ADMISSION_BID"))
    /\ LET bid == evaluate_patient_admission(hospital, patient, required_resources)
       IN  bids' = IF bid # None THEN Append(bids, <<hospital, bid>>) ELSE bids
    /\ hospital' = hospital + 1
    /\ pc' = IF hospital = NumHospitals THEN "allocate" ELSE "quote"
    /\ UNCHANGED <<num_hospitals, num_patients, initial_resources, current_resources, severity,
                   medical_needs, unmet_needs, global_message_log,
                   total_unmet_needs, resource_allocation_efficiency, caller,
                   patient, required_resources, best_hospital,
                   allocation_success, high, low, source, target, steps, calls,
                   step_trace,
                   entry_resources, entry_unmet, entry_log_len, pass_resources>>

(* ResourceCoordinatorAgent.allocate_resources with an empty bid list *)
AllocateNoBids ==
    /\ pc = "allocate"
    /\ bids = <<>>
    /\ message_log' = send_message(message_log,
           Message(CoordinatorId, BROADCAST, <<PatientId(patient)>>,
                   "RESOURCE_UNAVAILABLE"))
    /\ best_hospital' = 0
    /\ allocation_success' = "None"
    /\ pc' = "return"
    /\ UNCHANGED <<num_hospitals, num_patients, initial_resources, current_resources, severity,
                   medical_needs, unmet_needs, global_message_log,
                   total_unmet_needs, resource_allocation_efficiency, caller,
                   patient, hospital, required_resources, bids, high, low,
                   source, target, steps, calls, step_trace,
                   entry_resources, entry_unmet, entry_log_len, pass_resources>>

(* ResourceCoordinatorAgent.allocate_resources: sort the bids, pick
   sorted_bids[0] and send RESOURCE_ALLOCATION to it *)
AllocateSelect ==
    /\ pc = "allocate"
    /\ bids # <<>>
    /\ LET best == sorted_bids(bids, patient)[1]
       IN  /\ best_hospital' = best[1]
           /\ message_log' = send_message(message_log,
                  Message(CoordinatorId, HospitalId(best[1]),
                          <<PatientId(patient), medical_needs[patient],
                            best[2][1], best[2][2]>>,
                          "RESOURCE_ALLOCATION"))
    /\ pc' = "commit"
    /\ UNCHANGED <<num_hospitals, num_patients, initial_resources, current_resources, severity,
                   medical_needs, unmet_needs, global_message_log,
                   total_unmet_needs, resource_allocation_efficiency, caller,
                   patient, hospital, required_resources, bids,
                   allocation_success, high, low, source, target, steps, calls,
                   step_trace,
                   entry_resources, entry_unmet, entry_log_len, pass_resources>>

(* mutant: the amount checked and debited is the amount that was quoted *)
HospitalAllocate_quoted ==
    /\ pc = "commit"
    /\ IF CanAllocate(current_resources[best_hospital], required_resources)
       THEN /\ current_resources' =
                   [current_resources EXCEPT ![best_hospital] =
                        @ - required_resources * Scale]
            /\ message_log' = send_message(message_log,
                   Message(HospitalId(best_hospital), PatientId(patient),
                           <<required_resources, HospitalId(best_hospital)>>,
                           "RESOURCE_ALLOCATED"))
            /\ allocation_success' = "True"
       ELSE /\ allocation_success' = "False"
            /\ UNCHANGED <<current_resources, message_log>>
    /\ pc' = "result"
    /\ UNCHANGED <<num_hospitals, num_patients, initial_resources, severity, medical_needs, unmet_needs,
                   global_message_log, total_unmet_needs,
                   resource_allocation_efficiency, caller, patient, hospital,
                   required_resources, bids, best_hospital, high, low, source,
                   target, steps, calls, step_trace,
                   entry_resources, entry_unmet, entry_log_len, pass_resources>>

(* HospitalAgent.allocate_resources(patient, bid_value) on best_hospital *)
HospitalAllocate ==
    /\ pc = "commit"
    /\ IF CanAllocate(current_resources[best_hospital], medical_needs[patient])
       THEN /\ current_resources' =
                   [current_resources EXCEPT ![best_hospital] =
                        @ - medical_needs[patient] * Scale]
            /\ message_log' = send_message(message_log,
                   Message(HospitalId(best_hospital), PatientId(patient),
                           <<medical_needs[patient], HospitalId(best_hospital)>>,
                           "RESOURCE_ALLOCATED"))
            /\ allocation_success' = "True"
       ELSE /\ allocation_success' = "False"
            /\ UNCHANGED <<current_resources, message_log>>
    /\ pc' = "result"
    /\ UNCHANGED <<num_hospitals, num_patients, initial_resources, severity, medical_needs, unmet_needs,
                   global_message_log, total_unmet_needs,
                   resource_allocation_efficiency, caller, patient, hospital,
                   required_resources, bids, best_hospital, high, low, source,
                   target, steps, calls, step_trace,
                   entry_resources, entry_unmet, entry_log_len, pass_resources>>

(* mutant: the result message always reports success *)
allocation_status_always(success) == 1

(* 'allocation_status': allocation_success, as 1 (True) or 0 (False) *)
allocation_status(success) == IF success = "True" THEN 1 ELSE 0

(* ResourceCoordinatorAgent.allocate_resources: report the outcome *)
AllocationResult ==
    /\ pc = "result"
    /\ message_log' = send_message(message_log,
           Message(CoordinatorId, PatientId(patient),
                   <<allocation_status(allocation_success),
                     HospitalId(best_hospital)>>,
                   "ALLOCATION_RESULT"))
    /\ pc' = "return"
    /\ UNCHANGED <<num_hospitals, num_patients, initial_resources, current_resources, severity,
                   medical_needs, unmet_needs, global_message_log,
                   total_unmet_needs, resource_allocation_efficiency, caller,
                   patient, hospital, required_resources, bids, best_hospital,
                   allocation_success, high, low, source, target, steps, calls,
                   step_trace,
                   entry_resources, entry_unmet, entry_log_len, pass_resources>>

(* mutant: only False counts as a failure, None passes as success *)
Truthy_not_false(result) == result # "False"

(* Python truth value of the negotiation result (None and False are falsy) *)
Truthy(result) == result = "True"

(* mutant: the two branches are exchanged *)
UnmetAfter_swapped(needs, result) == IF Truthy(result) THEN needs ELSE 0

(* the value generate_medical_needs assigns to unmet_needs *)
UnmetAfter(needs, result) == IF ~Truthy(result) THEN needs ELSE 0

(* negotiate_resource_allocation returns into generate_medical_needs, which
   sets unmet_needs and returns *)
ReturnToPatient ==
    /\ pc = "return"
    /\ caller = "generate_medical_needs"
    /\ unmet_needs' = [unmet_needs EXCEPT ![patient] =
                           UnmetAfter(medical_needs[patient], allocation_success)]
    /\ pc' = "generated"
    /\ UNCHANGED <<num_hospitals, num_patients, initial_resources, current_resources, severity,
                   medical_needs, message_log, global_message_log,
                   total_unmet_needs, resource_allocation_efficiency, caller,
                   patient, hospital, required_resources, bids, best_hospital,
                   allocation_success, high, low, source, target, steps, calls,
                   step_trace, entry_resources, entry_unmet, entry_log_len,
                   pass_resources>>

(* the first loop of step() moves on to the next patient, or ends *)
NextPatient ==
    /\ pc = "generated"
    /\ step_trace' = Append(step_trace, Event("negotiate", patient))
    /\ IF patient = NumPatients
       THEN /\ pc' = AfterPatients
            /\ hospital' = 1
            /\ UNCHANGED patient
       ELSE /\ pc' = "generate"
            /\ patient' = patient + 1
            /\ UNCHANGED hospital
    /\ UNCHANGED <<num_hospitals, num_patients, initial_resources, current_resources, severity,
                   medical_needs, unmet_needs, message_log, global_message_log,
                   total_unmet_needs, resource_allocation_efficiency, caller,
                   required_resources, bids, best_hospital, allocation_success,
                   high, low, source, target, steps, calls, entry_resources,
                   entry_unmet, entry_log_len, pass_resources>>

(* negotiate_resource_allocation returns to the driver *)
ReturnToDriver ==
    /\ pc = "return"
    /\ caller = "driver"
    /\ pc' = "idle"
    /\ UNCHANGED <<num_hospitals, num_patients, initial_resources, current_resources, severity,
                   medical_needs, unmet_needs, message_log, global_message_log,
                   total_unmet_needs, resource_allocation_efficiency, caller,
                   patient, hospital, required_resources, bids, best_hospital,
                   allocation_success, high, low, source, target, steps, calls,
                   step_trace,
                   entry_resources, entry_unmet, entry_log_len, pass_resources>>

(* one iteration of the second loop of step(): hospital.process_resources() *)
ProcessResources ==
    /\ pc = "replenish"
    /\ current_resources' =
           [current_resources EXCEPT ![hospital] =
                Replenished(current_resources[hospital], initial_resources[hospital])]
    /\ step_trace' = Append(step_trace, Event("replenish", hospital))
    /\ hospital' = hospital + 1
    /\ pc' = IF hospital = NumHospitals THEN "rebalance" ELSE "replenish"
    /\ UNCHANGED <<num_hospitals, num_patients, initial_resources, severity, medical_needs, unmet_needs,
                   message_log, global_message_log, total_unmet_needs,
                   resource_allocation_efficiency, caller, patient,
                   required_resources, bids, best_hospital, allocation_success,
                   high, low, source, target, steps, calls,
                   entry_resources, entry_unmet, entry_log_len, pass_resources>>

(* coordinate_global_resources: build the two sorted lists and enter the
   nested loops *)
CoordinateGlobalResources ==
    /\ pc = "rebalance"
    /\ high' = high_capacity_hospitals
    /\ pass_resources' = current_resources
    /\ low' = low_capacity_hospitals
    /\ source' = 1
    /\ target' = 1
    /\ step_trace' = Append(step_trace, Event("rebalance", 0))
    /\ pc' = IF high_capacity_hospitals = <<>> \/ low_capacity_hospitals = <<>>
             THEN "metrics" ELSE "transfer"
    /\ UNCHANGED <<num_hospitals, num_patients, initial_resources, current_resources, severity,
                   medical_needs, unmet_needs, message_log, global_message_log,
                   total_unmet_needs, resource_allocation_efficiency, caller,
                   patient, hospital, required_resources, bids, best_hospital,
                   allocation_success, steps, calls,
                   entry_resources, entry_unmet, entry_log_len>>

(* one iteration of the inner loop of coordinate_global_resources *)
Transfer ==
    /\ pc = "transfer"
    /\ LET src == high[source]
           tgt == low[target]
           amount == transfer_amount(src, tgt)
       IN  IF amount > 0
           THEN /\ message_log' = send_message(message_log,
                       Message(HospitalId(src), HospitalId(tgt),
                               <<amount, HospitalId(src), HospitalId(tgt)>>,
                               "RESOURCE_TRANSFER"))
                /\ current_resources' =
                       apply_transfer(current_resources, src, tgt, amount)
           ELSE UNCHANGED <<message_log, current_resources>>
    /\ IF target < Len(low)
       THEN /\ target' = target + 1
            /\ UNCHANGED <<source, pc>>
       ELSE /\ target' = 1
            /\ source' = source + 1
            /\ pc' = IF source < Len(high) THEN "transfer" ELSE "metrics"
    /\ UNCHANGED <<num_hospitals, num_patients, initial_resources, severity, medical_needs, unmet_needs,
                   global_message_log, total_unmet_needs,
                   resource_allocation_efficiency, caller, patient, hospital,
                   required_resources, bids, best_hospital, allocation_success,
                   high, low, steps, calls, step_trace,
                   entry_resources, entry_unmet, entry_log_len, pass_resources>>

(* mutant: the denominator has no + 1 *)
Efficiency_unguarded(total_resources, unmet) ==
    <<total_resources - unmet * Scale, total_resources>>

(* update_performance_metrics: (total_resources - unmet) / (total_resources + 1) *)
Efficiency(total_resources, unmet) ==
    <<total_resources - unmet * Scale, total_resources + Scale>>

(* update_performance_metrics, then the rest of step(): schedule.step()
   runs the inherited no-op Agent.step of every agent, the data collector
   and the logger only read *)
UpdatePerformanceMetrics ==
    /\ pc = "metrics"
    /\ total_unmet_needs' = SumSeq(unmet_needs)
    /\ resource_allocation_efficiency' =
           Efficiency(SumSeq(current_resources), SumSeq(unmet_needs))
    /\ step_trace' = Append(step_trace, Event("metrics", 0))
    /\ steps' = steps + 1
    /\ pc' = "idle"
    /\ UNCHANGED <<num_hospitals, num_patients, initial_resources, current_resources, severity,
                   medical_needs, unmet_needs, message_log, global_message_log,
                   caller, patient, hospital, required_resources, bids,
                   best_hospital, allocation_success, high, low, source,
                   target, calls,
                   entry_resources, entry_unmet, entry_log_len, pass_resources>>

Next ==
    \/ StepBegin
    \/ GenerateMedicalNeeds
    \/ NegotiateCall
    \/ EvaluatePatientAdmission
    \/ AllocateNoBids
    \/ AllocateSelect
    \/ HospitalAllocate
    \/ AllocationResult
    \/ ReturnToPatient
    \/ NextPatient
    \/ ReturnToDriver
    \/ ProcessResources
    \/ CoordinateGlobalResources
    \/ Transfer
    \/ UpdatePerformanceMetrics

Spec == Init /\ [][Next]_vars

----------------------------------------------------------------------------
(* The decimal representation is exact: every division by ten made by
   process_resources and coordinate_global_resources is without remainder. *)
ExactDecimals ==
    /\ pc = "replenish" => current_resources[hospital] % 10 = 0
    /\ pc = "transfer" => current_resources[high[source]] % 10 = 0

TypeOK ==
    /\ pc \in {"idle", "generate", "quote", "allocate", "commit", "result",
               "return", "generated", "replenish", "rebalance", "transfer", "metrics"}
    /\ \A h \in Hospitals : current_resources[h] \in Int
    /\ \A p \in Patients : medical_needs[p] \in Nat /\ unmet_needs[p] \in Nat

----------------------------------------------------------------------------
(* A rebalance pass on its own: coordinate_global_resources run on
   hospitals whose balances a driver has set, followed by the metrics
   update that step() performs after it. *)

RebalanceCapacities == { <<100, 100, 100>>, <<400, 50, 100>> }

(* starting balances, in percent of the hospital's initial capacity *)
RebalanceLevels == {0, 10, 19, 20, 50, 121, 150}

InitRebalance ==
    /\ \E caps \in RebalanceCapacities :
          /\ num_hospitals = Len(caps)
          /\ initial_resources = [h \in 1..Len(caps) |-> caps[h] * Scale]
          /\ \E levels \in [1..Len(caps) -> RebalanceLevels] :
                current_resources =
                    [h \in 1..Len(caps) |-> caps[h] * (Scale \div 100) * levels[h]]
    /\ num_patients = 0
    /\ severity = <<>>
    /\ medical_needs = <<>>
    /\ unmet_needs = <<>>
    /\ message_log = <<>>
    /\ global_message_log = <<>>
    /\ total_unmet_needs = 0
    /\ resource_allocation_efficiency = <<0, 1>>
    /\ pc = "rebalance"
    /\ caller = "none"
    /\ patient = 0
    /\ hospital = 0
    /\ required_resources = 0
    /\ bids = <<>>
    /\ best_hospital = 0
    /\ allocation_success = "None"
    /\ high = <<>>
    /\ low = <<>>
    /\ source = 0
    /\ target = 0
    /\ steps = 0
    /\ calls = 0
    /\ step_trace = <<>>
    /\ entry_resources = current_resources
    /\ entry_unmet = unmet_needs
    /\ entry_log_len = 0
    /\ pass_resources = current_resources

NextRebalance ==
    \/ CoordinateGlobalResources
    \/ Transfer
    \/ UpdatePerformanceMetrics

SpecRebalance == InitRebalance /\ [][NextRebalance]_vars

(* Construction through ResourceAllocationEnvironment.__init__ with
   arguments of any sign: setup_hospitals and setup_patients loop over
   range(n), which is empty for n <= 0, every hospital gets the same
   initial_resources, and every patient a severity of random.choice. *)

HospitalCounts == {-1, 0, 1, 2}
PatientCounts == {-1, 0, 1}
InitialResources == {-100, 200}

InitConstruct ==
    /\ num_hospitals \in HospitalCounts
    /\ num_patients \in PatientCounts
    /\ \E resources \in InitialResources :
          /\ initial_resources = [h \in 1..num_hospitals |-> resources * Scale]
          /\ current_resources = [h \in 1..num_hospitals |-> resources * Scale]
    /\ severity \in [1..num_patients -> {"low", "medium", "high"}]
    /\ medical_needs = [p \in 1..num_patients |-> 0]
    /\ unmet_needs = [p \in 1..num_patients |-> 0]
    /\ message_log = <<>>
    /\ global_message_log = <<>>
    /\ total_unmet_needs = 0
    /\ resource_allocation_efficiency = <<0, 1>>
    /\ pc = "idle"
    /\ caller = "none"
    /\ patient = 0
    /\ hospital = 0
    /\ required_resources = 0
    /\ bids = <<>>
    /\ best_hospital = 0
    /\ allocation_success = "None"
    /\ high = <<>>
    /\ low = <<>>
    /\ source = 0
    /\ target = 0
    /\ steps = 0
    /\ calls = 0
    /\ step_trace = <<>>
    /\ entry_resources = current_resources
    /\ entry_unmet = unmet_needs
    /\ entry_log_len = 0
    /\ pass_resources = current_resources

SpecConstruct == InitConstruct /\ [][Next]_vars

(* The second half of step() on its own: the replenishment of every
   hospital, the rebalance pass and the metrics, run on hospitals whose
   balances a driver has set. *)
ReplenishLevels == RebalanceLevels \cup {140}

InitReplenish ==
    /\ \E caps \in RebalanceCapacities :
          /\ num_hospitals = Len(caps)
          /\ initial_resources = [h \in 1..Len(caps) |-> caps[h] * Scale]
          /\ \E levels \in [1..Len(caps) -> ReplenishLevels] :
                current_resources =
                    [h \in 1..Len(caps) |-> caps[h] * (Scale \div 100) * levels[h]]
    /\ num_patients = 0
    /\ severity = <<>>
    /\ medical_needs = <<>>
    /\ unmet_needs = <<>>
    /\ message_log = <<>>
    /\ global_message_log = <<>>
    /\ total_unmet_needs = 0
    /\ resource_allocation_efficiency = <<0, 1>>
    /\ pc = "replenish"
    /\ caller = "none"
    /\ patient = 0
    /\ hospital = 1
    /\ required_resources = 0
    /\ bids = <<>>
    /\ best_hospital = 0
    /\ allocation_success = "None"
    /\ high = <<>>
    /\ low = <<>>
    /\ source = 0
    /\ target = 0
    /\ steps = 0
    /\ calls = 0
    /\ step_trace = <<>>
    /\ entry_resources = current_resources
    /\ entry_unmet = unmet_needs
    /\ entry_log_len = 0
    /\ pass_resources = current_resources

NextReplenish ==
    \/ ProcessResources
    \/ CoordinateGlobalResources
    \/ Transfer
    \/ UpdatePerformanceMetrics

SpecReplenish == InitReplenish /\ [][NextReplenish]_vars

(* coordinate_global_resources has returned and is called again, as every
   further step() does *)
RepeatPass ==
    /\ pc = "metrics"
    /\ pc' = "rebalance"
    /\ step_trace' = <<>>
    /\ UNCHANGED <<num_hospitals, num_patients, initial_resources, current_resources, severity,
                   medical_needs, unmet_needs, message_log, global_message_log,
                   total_unmet_needs, resource_allocation_efficiency, caller,
                   patient, hospital, required_resources, bids, best_hospital,
                   allocation_success, high, low, source, target, steps, calls,
                   entry_resources, entry_unmet, entry_log_len, pass_resources>>

NextRepeat ==
    \/ CoordinateGlobalResources
    \/ Transfer
    \/ RepeatPass

(* rebalance passes repeated without end: a pass that has started runs to
   its end, and the next pass is started *)
SpecRepeat == InitRebalance /\ [][NextRepeat]_vars /\ WF_vars(NextRepeat)

----------------------------------------------------------------------------
(* Helpers of the properties *)

(* number of messages of one type in a log *)
CountType(log, type) == Len(SelectSeq(log, LAMBDA msg : msg.message_type = type))

(* the messages appended since the current negotiation was entered *)
SinceEntry == SubSeq(message_log, entry_log_len + 1, Len(message_log))

(* a negotiation is running, or has just returned its result *)
InNegotiation == pc \in {"quote", "allocate", "commit", "result", "return"}

----------------------------------------------------------------------------
(* C1: every hospital's current_resources is >= 0 in every reachable state,
   that is after each individual quote, commit, replenishment and rebalancing
   transfer, and not only between two steps. *)
C1_BalanceNonNegative ==
    \A h \in Hospitals : current_resources[h] >= 0

(* a commit, a replenishment and a rebalancing transfer have all acted *)
C1_Witness ==
    /\ pc = "metrics"
    /\ CountType(message_log, "RESOURCE_ALLOCATED") > 0
    /\ CountType(message_log, "RESOURCE_TRANSFER") > 0
    /\ \E h \in Hospitals : current_resources[h] # pass_resources[h]

(* C2: HospitalAgent.allocate_resources returns True only if the hospital's
   balance at commit time is >= the patient's demand, so that the debit never
   makes the balance negative. *)
C2_CommitOnlyIfCovered ==
    [][(pc = "commit" /\ allocation_success' = "True")
         => /\ current_resources[best_hospital] >= medical_needs[patient] * Scale
            /\ current_resources'[best_hospital] =
                   current_resources[best_hospital] - medical_needs[patient] * Scale
            /\ current_resources'[best_hospital] >= 0]_vars

(* a commit was refused because the balance did not cover the demand, and a
   commit of the same hospital had succeeded before *)
C2_Witness ==
    /\ pc = "result"
    /\ allocation_success = "False"
    /\ current_resources[best_hospital] < medical_needs[patient] * Scale
    /\ CountType(message_log, "RESOURCE_ALLOCATED") > 0

(* C3: a rebalance pass leaves the sum of all balances unchanged, whatever
   the number of hospitals and their starting balances: what a transfer adds
   to the target is what it takes from the source. *)
C3_RebalanceConserves ==
    pc \in {"transfer", "metrics"}
        => SumSeq(current_resources) = SumSeq(pass_resources)

(* a pass that made at least two transfers has ended *)
C3_Witness ==
    /\ pc = "metrics"
    /\ CountType(message_log, "RESOURCE_TRANSFER") >= 2
    /\ current_resources # pass_resources

(* every hospital's balance was below the quoted demand when the current
   negotiation was entered *)
AllBelowAtEntry ==
    \A h \in Hospitals : entry_resources[h] < required_resources * Scale

(* the current negotiation has returned its result *)
NegotiationReturned ==
    \/ pc \in {"return", "generated"}
    \/ pc = "idle" /\ caller = "driver"

(* C4: if every hospital's balance is below the demand, the negotiation
   collects no bid and returns failure, appends exactly one
   RESOURCE_UNAVAILABLE message (to BROADCAST), attempts no commit and
   changes no balance; when generate_medical_needs has returned, the
   patient's unmet_needs equals its medical_needs. *)
C4_NoBid ==
    (NegotiationReturned /\ AllBelowAtEntry)
        => /\ bids = <<>>
           /\ allocation_success = "None"
           /\ CountType(SinceEntry, "RESOURCE_UNAVAILABLE") = 1
           /\ message_log[Len(message_log)].message_type = "RESOURCE_UNAVAILABLE"
           /\ message_log[Len(message_log)].recipient = BROADCAST
           /\ CountType(SinceEntry, "RESOURCE_ALLOCATION") = 0
           /\ CountType(SinceEntry, "RESOURCE_ALLOCATED") = 0
           /\ CountType(SinceEntry, "ALLOCATION_RESULT") = 0
           /\ current_resources = entry_resources
           /\ pc = "generated" => unmet_needs[patient] = medical_needs[patient]

(* two hospitals of balance 100, one patient with demand 150: unmet 150 *)
C4_Witness ==
    /\ pc = "generated"
    /\ entry_resources = <<100 * Scale, 100 * Scale>>
    /\ medical_needs = <<150>>
    /\ unmet_needs = <<150>>
    /\ allocation_success = "None"

(* C5: when generate_medical_needs has returned, unmet_needs equals
   medical_needs if the negotiation of that call failed and 0 if it
   succeeded, and it is 0 exactly when one hospital's balance was debited by
   the demand during that call. *)
C5_UnmetTracksOutcome ==
    pc = "generated"
        => /\ unmet_needs[patient] =
                  (IF allocation_success = "True" THEN 0 ELSE medical_needs[patient])
           /\ unmet_needs[patient] = 0
                  <=> \E h \in Hospitals :
                         current_resources =
                             [entry_resources EXCEPT
                                  ![h] = @ - medical_needs[patient] * Scale]

(* in one step the first patient was served and the second was not *)
C5_Witness ==
    /\ pc = "generated"
    /\ patient = 2
    /\ unmet_needs[1] = 0
    /\ unmet_needs[2] = medical_needs[2]
    /\ medical_needs[2] > 0

(* the hospitals that returned a bid in the current negotiation *)
Bidders == {bids[i][1] : i \in 1..Len(bids)}

(* the bid value hospital h returned *)
BidOf(h) == bids[CHOOSE i \in 1..Len(bids) : bids[i][1] = h][2]

(* the rank as the claim states it:
   0.4 * severity_score + 0.3 * min(balance / initial_capacity, 1) + 0.3 * bid *)
StatedRank(h) ==
    FracAdd(FracMul(Frac(4, 10), severity_score(patient)),
        FracAdd(FracMul(Frac(3, 10),
                        IF entry_resources[h] < initial_resources[h]
                        THEN Frac(entry_resources[h], initial_resources[h])
                        ELSE Frac(1, 1)),
                FracMul(Frac(3, 10), Frac(BidOf(h)[1], BidOf(h)[2]))))

(* C6: when the bid list is not empty, the coordinator commits on the bidder
   of maximal rank, and among bidders of equal maximal rank on the one that
   is earliest in the registry. *)
C6_WinnerIsTopRanked ==
    pc = "commit"
        => /\ best_hospital \in Bidders
           /\ \A h \in Bidders :
                 /\ FracCmp(StatedRank(best_hospital), StatedRank(h)) >= 0
                 /\ FracCmp(StatedRank(best_hospital), StatedRank(h)) = 0
                        => best_hospital <= h

(* two bidders of equal rank, the one registered first chosen *)
C6_Witness ==
    /\ pc = "commit"
    /\ Len(bids) = 2
    /\ FracCmp(StatedRank(bids[1][1]), StatedRank(bids[2][1])) = 0
    /\ best_hospital = bids[1][1]

(* the admission score as the claim states it:
   0.4 * specialization_match + 0.6 * (1 - demand / balance) *)
StatedScore(h) ==
    FracAdd(FracMul(Frac(4, 10),
                    IF matches_specialization(h, patient)
                    THEN Frac(10, 10) ELSE Frac(3, 10)),
            FracMul(Frac(6, 10),
                    Frac(entry_resources[h] - required_resources * Scale,
                         entry_resources[h])))

(* the hospitals already asked for a quote in the current negotiation *)
Quoted == {h \in Hospitals : h < hospital}

(* C7: evaluate_patient_admission returns a bid if and only if the balance
   is >= the demand and the score is strictly greater than 0.5, the bid being
   that score; otherwise it returns None; quoting changes no balance. *)
C7_QuoteRule ==
    pc \in {"quote", "allocate"}
        => /\ current_resources = entry_resources
           /\ \A h \in Quoted :
                 /\ h \in Bidders
                        <=> /\ entry_resources[h] >= required_resources * Scale
                            /\ FracCmp(StatedScore(h), Frac(1, 2)) > 0
                 /\ h \in Bidders
                        => FracCmp(Frac(BidOf(h)[1], BidOf(h)[2]), StatedScore(h)) = 0

(* a hospital whose balance covers the demand was quoted with a score of
   exactly 0.5 and returned no bid *)
C7_Witness ==
    /\ pc = "allocate"
    /\ \E h \in Quoted :
          /\ entry_resources[h] >= required_resources * Scale
          /\ FracCmp(StatedScore(h), Frac(1, 2)) = 0
          /\ h \notin Bidders

(* the example of C8 is running: hospitals A and B of capacity 200 and 50,
   one patient, its first demand 40, nothing else done before *)
ExampleAB ==
    /\ initial_resources = <<200 * Scale, 50 * Scale>>
    /\ NumPatients = 1
    /\ steps = 0
    /\ calls = 0
    /\ caller = "generate_medical_needs"
    /\ medical_needs = <<40>>

(* C8: in that example both hospitals bid, A ranks strictly higher than B
   and wins the commit, and afterwards A holds 160 and B holds 50. *)
C8_ExampleAB ==
    ExampleAB
        => /\ pc \in {"allocate", "commit", "result", "return", "generated"}
                  => Bidders = {1, 2}
           /\ pc \in {"commit", "result", "return", "generated"}
                  => /\ best_hospital = 1
                     /\ FracCmp(StatedRank(1), StatedRank(2)) > 0
           /\ pc \in {"result", "return", "generated"}
                  => /\ allocation_success = "True"
                     /\ current_resources = <<160 * Scale, 50 * Scale>>

(* the example has run to the end of generate_medical_needs *)
C8_Witness ==
    /\ ExampleAB
    /\ pc = "generated"
    /\ current_resources = <<160 * Scale, 50 * Scale>>
    /\ unmet_needs = <<0>>

(* the commit of the current negotiation has returned False *)
StaleCommit ==
    /\ allocation_success = "False"
    /\ \/ pc \in {"result", "return", "generated"}
       \/ pc = "idle" /\ caller = "driver"

(* what a refused commit leaves behind, apart from unmet_needs: no balance
   changed, no RESOURCE_ALLOCATED, one RESOURCE_ALLOCATION only (no other
   bidder tried), and once the coordinator has returned, an
   ALLOCATION_RESULT to the patient that carries the false outcome *)
StaleCommitEffects ==
    /\ current_resources[best_hospital] < medical_needs[patient] * Scale
    /\ current_resources = entry_resources
    /\ CountType(SinceEntry, "RESOURCE_ALLOCATED") = 0
    /\ CountType(SinceEntry, "RESOURCE_ALLOCATION") = 1
    /\ pc # "result"
          => /\ CountType(SinceEntry, "ALLOCATION_RESULT") = 1
             /\ message_log[Len(message_log)] =
                    Message(CoordinatorId, PatientId(patient),
                            <<0, HospitalId(best_hospital)>>, "ALLOCATION_RESULT")

(* C9 as claimed: after a refused commit all of the above holds and, once
   the negotiation is over, the patient's unmet_needs is its medical_needs. *)
C9_AsClaimed ==
    StaleCommit
        => /\ StaleCommitEffects
           /\ pc \in {"generated", "idle"}
                  => unmet_needs[patient] = medical_needs[patient]

(* C9, amended: after a refused commit all of the above holds; the
   negotiation itself leaves unmet_needs as it was, and unmet_needs is set
   to medical_needs only where generate_medical_needs receives the false
   outcome. *)
C9_StaleCommit ==
    StaleCommit
        => /\ StaleCommitEffects
           /\ pc \in {"result", "return", "idle"} => unmet_needs = entry_unmet
           /\ pc = "generated" => unmet_needs[patient] = medical_needs[patient]

(* a negotiation has returned False after the commit was refused, although
   another bidder could have covered the demand *)
C9_Witness ==
    /\ pc = "idle"
    /\ caller = "driver"
    /\ allocation_success = "False"
    /\ \E h \in Bidders \ {best_hospital} :
          current_resources[h] >= medical_needs[patient] * Scale

(* the operations of one step() in program order: one negotiation per
   patient, one replenishment per hospital, one rebalance pass, the metrics *)
ExpectedTrace ==
    [p \in Patients |-> Event("negotiate", p)]
        \o [h \in Hospitals |-> Event("replenish", h)]
        \o <<Event("rebalance", 0), Event("metrics", 0)>>

(* how many operations of the current step() are done at this position *)
DoneInStep ==
    IF pc = "generate" \/ pc = "generated"
          \/ (InNegotiation /\ caller = "generate_medical_needs")
    THEN patient - 1
    ELSE IF pc = "replenish" THEN NumPatients + hospital - 1
    ELSE IF pc = "rebalance" THEN NumPatients + NumHospitals
    ELSE IF pc \in {"transfer", "metrics"} THEN NumPatients + NumHospitals + 1
    ELSE IF steps > 0 THEN NumPatients + NumHospitals + 2
    ELSE 0

(* C10: within one step() every patient's negotiation comes before any
   replenishment, every hospital is replenished exactly once before the
   rebalance pass, the pass runs exactly once, and the metrics are
   recomputed after it. *)
C10_StepOrder ==
    step_trace = SubSeq(ExpectedTrace, 1, DoneInStep)

(* a step with two patients and two hospitals has completed *)
C10_Witness ==
    /\ pc = "idle"
    /\ steps > 0
    /\ NumPatients = 2
    /\ NumHospitals = 2
    /\ step_trace = ExpectedTrace
    /\ CountType(message_log, "RESOURCE_ALLOCATED") > 0

(* sender, recipient and type of a message *)
Shape(msg) == <<msg.sender, msg.recipient, msg.message_type>>

(* the hospitals quoted so far in the current negotiation *)
NumQuoted == IF pc = "quote" THEN hospital - 1 ELSE NumHospitals

(* the messages a negotiation has logged at its present position, by sender,
   recipient and type *)
ExpectedNegotiationLog ==
    (IF caller = "generate_medical_needs"
     THEN <<<<PatientId(patient), CoordinatorId, "MEDICAL_NEEDS">>>>
     ELSE <<>>)
    \o [h \in 1..NumQuoted |-> <<HospitalId(h), CoordinatorId, "ADMISSION_BID">>]
    \o (IF pc \notin {"quote", "allocate"} /\ bids = <<>>
        THEN <<<<CoordinatorId, BROADCAST, "RESOURCE_UNAVAILABLE">>>>
        ELSE <<>>)
    \o (IF pc \notin {"quote", "allocate"} /\ bids # <<>>
        THEN <<<<CoordinatorId, HospitalId(best_hospital), "RESOURCE_ALLOCATION">>>>
        ELSE <<>>)
    \o (IF pc \notin {"quote", "allocate", "commit"} /\ allocation_success = "True"
        THEN <<<<HospitalId(best_hospital), PatientId(patient), "RESOURCE_ALLOCATED">>>>
        ELSE <<>>)
    \o (IF pc \notin {"quote", "allocate", "commit", "result"} /\ bids # <<>>
        THEN <<<<CoordinatorId, PatientId(patient), "ALLOCATION_RESULT">>>>
        ELSE <<>>)

(* C11: in one negotiation the coordinator's log receives, in this order,
   the patient's MEDICAL_NEEDS (when generate_medical_needs runs it), one
   ADMISSION_BID per hospital in registry order whether the hospital bids or
   not and all before the commit, then with at least one bid one
   RESOURCE_ALLOCATION to the winner, RESOURCE_ALLOCATED only after a
   successful commit, and one ALLOCATION_RESULT to the patient after a
   successful and after a refused commit alike. *)
C11_NegotiationLog ==
    (InNegotiation \/ NegotiationReturned)
        => [i \in 1..Len(SinceEntry) |-> Shape(SinceEntry[i])]
               = ExpectedNegotiationLog

(* a negotiation of generate_medical_needs over two hospitals, one bidding
   and one not, has returned after a successful commit *)
C11_Witness ==
    /\ pc = "generated"
    /\ NumHospitals = 2
    /\ Len(bids) = 1
    /\ allocation_success = "True"
    /\ Len(SinceEntry) = 6

(* the patients whose demand generate_medical_needs has drawn *)
Generated == {p \in Patients : medical_needs[p] # 0}

(* C13 as claimed: every generated demand lies in the half-open range of the
   patient's severity: low in [5,20), medium in [20,100), high in [100,200). *)
C13_AsClaimed ==
    \A p \in Generated :
        /\ severity[p] = "low" => medical_needs[p] >= 5 /\ medical_needs[p] < 20
        /\ severity[p] = "medium" => medical_needs[p] >= 20 /\ medical_needs[p] < 100
        /\ severity[p] = "high" => medical_needs[p] >= 100 /\ medical_needs[p] < 200

(* C13, amended: every generated demand lies in the closed range of the
   patient's severity: low in [5,20], medium in [20,100], high in [100,200],
   the upper end included. *)
C13_DemandInRange ==
    \A p \in Generated :
        /\ severity[p] = "low" => medical_needs[p] >= 5 /\ medical_needs[p] <= 20
        /\ severity[p] = "medium" => medical_needs[p] >= 20 /\ medical_needs[p] <= 100
        /\ severity[p] = "high" => medical_needs[p] >= 100 /\ medical_needs[p] <= 200

(* a low-severity patient has drawn the demand 20 *)
C13_Witness ==
    /\ pc = "generated"
    /\ severity[patient] = "low"
    /\ medical_needs[patient] = 20

(* the number of RESOURCE_TRANSFER messages sent to hospital h *)
TransfersIn(h) ==
    Len(SelectSeq(message_log,
                  LAMBDA msg : /\ msg.message_type = "RESOURCE_TRANSFER"
                               /\ msg.recipient = HospitalId(h)))

(* hospital h holds more than 1.5 x its initial capacity *)
AboveGrowthCap(h) ==
    current_resources[h] > initial_resources[h] + initial_resources[h] \div 2

(* C14 as claimed: transfers-in meet no ceiling, so that once a hospital
   receives transfers and the passes are repeated, a receiving hospital
   comes to hold more than 1.5 x its initial capacity. *)
C14_AsClaimed ==
    (\E h \in Hospitals : TransfersIn(h) > 0)
        ~> (\E h \in Hospitals : TransfersIn(h) > 0 /\ AboveGrowthCap(h))

(* C14, amended: rebalancing does impose a ceiling on the receiving
   hospital: a hospital that has received a transfer holds at most
   0.2 x its initial capacity, and no hospital holds more than 1.5 x its
   initial capacity, however often the pass is repeated. *)
C14_TransferCeiling ==
    \A h \in Hospitals :
        /\ ~AboveGrowthCap(h)
        /\ TransfersIn(h) > 0
               => current_resources[h] <= initial_resources[h] \div 5

(* a hospital has received transfers from two sources and is filled up to
   exactly 0.2 x its initial capacity *)
C14_Witness ==
    /\ pc = "metrics"
    /\ \E h \in Hospitals :
          /\ TransfersIn(h) >= 2
          /\ current_resources[h] = initial_resources[h] \div 5

(* C15: process_resources sets the hospital's balance to
   min(1.1 * balance, 1.5 * initial_resources), changes neither
   initial_resources nor any other hospital's balance, and never decreases
   the balance. *)
C15_Replenish ==
    [][pc = "replenish"
         => /\ IF 11 * current_resources[hospital] <= 15 * initial_resources[hospital]
               THEN 10 * current_resources'[hospital] = 11 * current_resources[hospital]
               ELSE 2 * current_resources'[hospital] = 3 * initial_resources[hospital]
            /\ current_resources'[hospital] >= current_resources[hospital]
            /\ initial_resources' = initial_resources
            /\ \A h \in Hospitals \ {hospital} :
                   current_resources'[h] = current_resources[h]]_vars

(* the hospitals replenished so far in the running step() *)
Replenishments ==
    {step_trace[i].who : i \in {j \in 1..Len(step_trace) : step_trace[j].op = "replenish"}}

(* after the replenishment loop one hospital has grown by a tenth, one was
   stopped at 1.5 x its initial capacity, and one was left at that level *)
C15_Witness ==
    /\ pc = "rebalance"
    /\ Replenishments = Hospitals
    /\ \E h \in Hospitals :
          /\ 10 * current_resources[h] = 11 * entry_resources[h]
          /\ entry_resources[h] > 0
    /\ \E h \in Hospitals :
          /\ 2 * current_resources[h] = 3 * initial_resources[h]
          /\ 11 * entry_resources[h] > 15 * initial_resources[h]
          /\ entry_resources[h] < current_resources[h]
    /\ \E h \in Hospitals :
          /\ 2 * current_resources[h] = 3 * initial_resources[h]
          /\ entry_resources[h] = current_resources[h]

(* the constructor's arguments violate a configuration invariant *)
InvalidConfiguration ==
    \/ num_hospitals < 0
    \/ num_patients < 0
    \/ \E h \in Hospitals : initial_resources[h] < 0

(* C16: construction with a negative number of hospitals, a negative number
   of patients or a negative initial capacity fails, so that no step() ever
   runs on such a configuration. *)
C16_AsClaimed ==
    InvalidConfiguration => steps = 0

(* a is a prefix of b *)
IsPrefix(a, b) == Len(a) <= Len(b) /\ SubSeq(b, 1, Len(a)) = a

(* every identity a message can be addressed to *)
Recipients == {BROADCAST, CoordinatorId}
                  \cup {HospitalId(h) : h \in Hospitals}
                  \cup {PatientId(p) : p \in Patients}

(* the positions of the log that hold a message addressed to x *)
RecipientIndices(log, x) == {i \in 1..Len(log) : log[i].recipient = x}

(* r holds exactly the messages of the log addressed to x, in log order *)
IsForRecipient(r, log, x) ==
    /\ Len(r) = Cardinality(RecipientIndices(log, x))
    /\ \A i \in RecipientIndices(log, x) :
           r[Cardinality({j \in RecipientIndices(log, x) : j <= i})] = log[i]

(* the positions whose step always sends a message: MEDICAL_NEEDS,
   ADMISSION_BID, RESOURCE_UNAVAILABLE or RESOURCE_ALLOCATION, and
   ALLOCATION_RESULT *)
SendingPositions == {"generate", "quote", "allocate", "result"}

(* C17: the coordinator's log only grows at its end: over every step of
   every operation the log before is a prefix of the log after, by at most
   one message, and by exactly one where a message is sent, also when an
   equal message is logged already; and get_messages_for_agent(x) returns
   exactly the logged messages whose recipient is x, in log order (applied
   to the log whenever step() or a negotiation has returned). *)
C17_AppendOnly ==
    [][/\ IsPrefix(message_log, message_log')
       /\ Len(message_log') <= Len(message_log) + 1
       /\ pc \in SendingPositions => Len(message_log') = Len(message_log) + 1
       /\ pc' = "idle"
              => \A x \in Recipients :
                    IsForRecipient(get_messages_for_agent(message_log', x),
                                   message_log', x)]_vars

(* the log holds two equal messages (the same demand generated in two
   steps), and messages to one recipient with others in between *)
C17_Witness ==
    /\ \E i, j \in 1..Len(message_log) : i < j /\ message_log[i] = message_log[j]
    /\ \E x \in Recipients :
          \E i, j \in RecipientIndices(message_log, x) :
              i + 1 < j /\ message_log[i + 1].recipient # x

(* step() has returned and no negotiation was called since *)
EndOfStep == pc = "idle" /\ steps > 0 /\ caller # "driver"

(* C18: the denominator of the efficiency, the sum of the balances plus 1,
   is >= 1 in every reachable state, also with no hospital and with a total
   balance of zero, so the division is defined; at the end of a step the
   efficiency is (sum of balances - sum of unmet needs) / (sum of
   balances + 1) over the balances and unmet needs of that moment. *)
C18_Efficiency ==
    /\ SumSeq(current_resources) + Scale >= Scale
    /\ resource_allocation_efficiency[2] > 0
    /\ EndOfStep
          => /\ total_unmet_needs = SumSeq(unmet_needs)
             /\ resource_allocation_efficiency[1] =
                    SumSeq(current_resources) - SumSeq(unmet_needs) * Scale
             /\ resource_allocation_efficiency[2] = SumSeq(current_resources) + Scale

(* a step has ended with a hospital, a total balance of zero and unmet
   needs: the efficiency is -unmet / 1 *)
C18_Witness ==
    /\ EndOfStep
    /\ NumHospitals > 0
    /\ SumSeq(current_resources) = 0
    /\ total_unmet_needs > 0
    /\ resource_allocation_efficiency = <<-(total_unmet_needs * Scale), Scale>>

(* C19 as claimed: when a negotiation has succeeded, the winner's balance is
   lower by exactly the amount that was quoted in that call, and every other
   balance is as it was. *)
C19_AsClaimed ==
    (NegotiationReturned /\ allocation_success = "True")
        => current_resources =
               [entry_resources EXCEPT
                    ![best_hospital] = @ - required_resources * Scale]

(* C19, amended: when a negotiation has succeeded, the winner's balance is
   lower by exactly the patient's medical_needs (the amount that was quoted
   when generate_medical_needs made the call, but not when a caller passes
   another amount), and every other balance is as it was; before the commit,
   and after a negotiation without success, every balance is as it was when
   the negotiation was entered. *)
C19_CommitFrame ==
    /\ pc \in {"quote", "allocate", "commit"} => current_resources = entry_resources
    /\ (pc = "result" \/ NegotiationReturned)
          => current_resources =
                 IF allocation_success = "True"
                 THEN [entry_resources EXCEPT
                           ![best_hospital] = @ - medical_needs[patient] * Scale]
                 ELSE entry_resources
    /\ (InNegotiation /\ caller = "generate_medical_needs")
          => required_resources = medical_needs[patient]

(* a direct call that quoted another amount than the patient's
   medical_needs has succeeded, with two hospitals *)
C19_Witness ==
    /\ pc = "idle"
    /\ caller = "driver"
    /\ allocation_success = "True"
    /\ NumHospitals = 2
    /\ medical_needs[patient] > 0
    /\ required_resources # medical_needs[patient]
    /\ current_resources[best_hospital] =
           entry_resources[best_hospital] - medical_needs[patient] * Scale

(* s lists exactly the hospitals of the set, each once *)
ListsExactly(s, set) ==
    /\ {s[i] : i \in 1..Len(s)} = set
    /\ Len(s) = Cardinality(set)

(* the surplus and the deficit hospitals by the balances at the start of
   the pass: above 1.2 x and below 0.8 x the initial capacity *)
SurplusAtStart ==
    {h \in Hospitals : 10 * pass_resources[h] > 12 * initial_resources[h]}

DeficitAtStart ==
    {h \in Hospitals : 10 * pass_resources[h] < 8 * initial_resources[h]}

(* the lists of the running pass are those of its start: the surplus
   hospitals by descending, the deficit hospitals by ascending balance *)
ListsFixedAtStart ==
    /\ ListsExactly(high, SurplusAtStart)
    /\ ListsExactly(low, DeficitAtStart)
    /\ \A i, j \in 1..Len(high) :
           i < j => pass_resources[high[i]] >= pass_resources[high[j]]
    /\ \A i, j \in 1..Len(low) :
           i < j => pass_resources[low[i]] <= pass_resources[low[j]]

(* min(0.10 * balance of src, 0.20 * capacity of tgt - balance of tgt) on
   the balances as they are now *)
LiveAmount(src, tgt) ==
    IF current_resources[src] <= 2 * initial_resources[tgt] - 10 * current_resources[tgt]
    THEN current_resources[src] \div 10
    ELSE initial_resources[tgt] \div 5 - current_resources[tgt]

(* C20: in a rebalance pass the surplus list (balance > 1.2 x capacity,
   descending) and the deficit list (balance < 0.8 x capacity, ascending) are
   those of the balances at the start of the pass, while the amount of each
   pair is min(0.10 * surplus balance, 0.20 * deficit capacity - deficit
   balance) on the balances as already changed by the pass; only a positive
   amount is moved, with one RESOURCE_TRANSFER message; with no pair the
   pass changes no balance and appends no message. *)
C20_RebalancePass ==
    [][/\ pc' \in {"transfer", "metrics"} => ListsFixedAtStart'
       /\ pc = "rebalance"
             => /\ current_resources' = current_resources
                /\ message_log' = message_log
                /\ pc' = "metrics" <=> (high' = <<>> \/ low' = <<>>)
       /\ pc = "transfer"
             => LET src == high[source]
                    tgt == low[target]
                    amount == LiveAmount(src, tgt)
                IN  IF amount > 0
                    THEN /\ current_resources' =
                                [current_resources EXCEPT ![src] = @ - amount,
                                                          ![tgt] = @ + amount]
                         /\ Len(message_log') = Len(message_log) + 1
                         /\ Shape(message_log'[Len(message_log')]) =
                                <<HospitalId(src), HospitalId(tgt), "RESOURCE_TRANSFER">>
                         /\ message_log'[Len(message_log')].content[1] = amount
                    ELSE /\ current_resources' = current_resources
                         /\ message_log' = message_log]_vars

(* a pass has ended in which one source gave to two targets, the second
   amount being a tenth of what the first transfer had left *)
C20_Witness ==
    /\ pc = "metrics"
    /\ Len(message_log) = 2
    /\ message_log[1].sender = message_log[2].sender
    /\ message_log[1].content[1] > message_log[2].content[1]
    /\ 10 * message_log[2].content[1] =
           pass_resources[message_log[1].sender - 1] - message_log[1].content[1]

(* min(0.10 * balance of src, 0.80 * capacity of tgt - balance of tgt): the
   amount of a pair when the deficit side is bounded by what tgt needs to
   reach 80% of its capacity *)
AmountToReach80(src, tgt) ==
    Min(current_resources[src] \div 10,
        4 * (initial_resources[tgt] \div 5) - current_resources[tgt])

(* C21 as claimed: the deficit-side bound of a transfer is what the deficit
   hospital needs to reach 80% of its capacity: each pair of a pass moves
   min(0.10 * surplus balance, 0.80 * deficit capacity - deficit balance)
   when that is positive, so that at the end of a pass with a surplus
   hospital every hospital of the deficit list has received a transfer and
   none of them has been brought above 0.8 x its capacity. *)
C21_AsClaimed ==
    [][/\ pc = "transfer"
             => LET src == high[source]
                    tgt == low[target]
                    amount == AmountToReach80(src, tgt)
                IN  current_resources'[tgt] =
                        current_resources[tgt] + (IF amount > 0 THEN amount ELSE 0)
       /\ pc = "transfer" /\ pc' = "metrics"
             => \A h \in DeficitAtStart :
                    /\ TransfersIn(h)' > 0
                    /\ 5 * current_resources'[h] <= 4 * initial_resources[h]]_vars

(* the negotiation under way was started by generate_medical_needs, that is
   by step() *)
InStepNegotiation == InNegotiation /\ caller = "generate_medical_needs"

(* C22: in a negotiation started by step(), the amount quoted is the
   patient's demand, every bid comes from a hospital whose balance covers
   that demand, no balance changes between the quotes and the commit, the
   commit finds the winner's balance covering the demand, and the
   negotiation returns success exactly when at least one hospital returned
   a bid: the refusal of a stale quote does not happen. *)
C22_StepNegotiation ==
    InStepNegotiation =>
        /\ required_resources = medical_needs[patient]
        /\ \A h \in Bidders : entry_resources[h] >= required_resources * Scale
        /\ pc \in {"quote", "allocate", "commit"} => current_resources = entry_resources
        /\ pc = "commit"
              => current_resources[best_hospital] >= medical_needs[patient] * Scale
        /\ pc \in {"result", "return"}
              => /\ Truthy(allocation_success) <=> bids # <<>>
                 /\ allocation_success # "False"

(* in a later step a negotiation started by step() returns success with a
   bid from one hospital while another hospital, short of the demand, has
   returned none *)
C22_Witness ==
    /\ InStepNegotiation
    /\ pc = "return"
    /\ steps > 0
    /\ Truthy(allocation_success)
    /\ Bidders # {}
    /\ \E h \in Hospitals \ Bidders : entry_resources[h] < required_resources * Scale

(* the kinds of agents that have sent a message of the coordinator's log *)
SenderKinds ==
    { IF message_log[i].sender = CoordinatorId THEN "coordinator"
      ELSE IF message_log[i].sender <= 1 + NumHospitals THEN "hospital"
      ELSE "patient" : i \in 1..Len(message_log) }

(* model.global_message_manager.message_log[-10:], the tail the
   visualization shows *)
DisplayedTail ==
    SubSeq(global_message_log,
           IF Len(global_message_log) > 10 THEN Len(global_message_log) - 9 ELSE 1,
           Len(global_message_log))

(* C23: the environment's own log, global_message_manager.message_log, is
   empty in every reachable state, and so is the tail of it that the
   visualization displays: the messages of hospitals, patients and the
   coordinator are in the coordinator's log only. *)
C23_GlobalLogEmpty ==
    /\ global_message_log = <<>>
    /\ DisplayedTail = <<>>

(* hospitals, patients and the coordinator have all sent messages, a
   transfer among them, and the environment's log is still empty *)
C23_Witness ==
    /\ SenderKinds = {"coordinator", "hospital", "patient"}
    /\ CountType(message_log, "RESOURCE_TRANSFER") > 0
    /\ CountType(message_log, "ADMISSION_BID") > 0
    /\ Len(message_log) > 10
    /\ global_message_log = <<>>

====
